---- MODULE Spec2Model ----
(***************************************************************************)
(* Export / edit / import round trip of iQUAVIS task records through an    *)
(* Excel workbook: excel_writer.py (flatten, headers, shadow export) and   *)
(* import_tasks_cli.py (change detection, reconcile loop, audit marking).  *)
(*                                                                         *)
(* Python strings are sequences of one-character strings, so that split,   *)
(* strip, lower, sorting and the path functions are computed, not assumed. *)
(***************************************************************************)
EXTENDS Integers, Sequences, FiniteSets, TLC

\* ------------------------------------------------------------------ bounds

\* Largest number of entries (leaves and nested mappings) of a record whose
\* flatten/unflatten round trip is enumerated.
MaxNodes == 3

\* Largest number of task records in one export.
MaxTasks == 2

\* Largest number of cell edits (values, fills, headers) a human makes
\* between export and import.
MaxEdits == 2

\* Longest path of the workbook file chosen for import.
MaxPathLen == 4

\* Largest number of flattened rows, and of extra headers, given to
\* collect_headers.
MaxHdrRows == 2

\* Largest number of files of one name family the output directory holds
\* when an export starts.
MaxFiles == 3

\* Largest number of import runs over one document.
MaxPasses == 2

\* ----------------------------------------------------------------- strings

CtrlChar == "\\x01"

\* The characters of the model in code-point order.
Chars ==
  << CtrlChar, " ", ".", "/", "0", "1", "2", "3", "4", "5", "6", "7", "8", "9",
     "A", "B", "C", "D", "E", "F", "G", "H", "I", "J", "K", "L", "M", "N", "O",
     "P", "Q", "R", "S", "T", "U", "V", "W", "X", "Y", "Z", "[", "]", "_",
     "a", "b", "c", "d", "e", "f", "g", "h", "i", "j", "k", "l", "m", "n", "o",
     "p", "q", "r", "s", "t", "u", "v", "w", "x", "y", "z" >>

Ord(ch) == CHOOSE i \in 1..Len(Chars) : Chars[i] = ch

UpperChars == SubSeq(Chars, 15, 40)

LowerChars == SubSeq(Chars, 44, 69)

Digits == {"0", "1", "2", "3", "4", "5", "6", "7", "8", "9"}

LowerChar(ch) ==
  IF \E i \in 1..26 : UpperChars[i] = ch
  THEN LowerChars[CHOOSE i \in 1..26 : UpperChars[i] = ch]
  ELSE ch

\* str.lower()
Lower(s) == [i \in 1..Len(s) |-> LowerChar(s[i])]

\* str.strip(): leading and trailing whitespace removed
RECURSIVE LStrip(_)
LStrip(s) == IF s # <<>> /\ Head(s) = " " THEN LStrip(Tail(s)) ELSE s

RECURSIVE RStrip(_)
RStrip(s) ==
  IF s # <<>> /\ s[Len(s)] = " " THEN RStrip(SubSeq(s, 1, Len(s) - 1)) ELSE s

Strip(s) == RStrip(LStrip(s))

\* Lexicographic order of two strings by code point (Python str <)
RECURSIVE StrLess(_, _)
StrLess(a, b) ==
  IF b = <<>> THEN FALSE
  ELSE IF a = <<>> THEN TRUE
  ELSE IF Head(a) = Head(b) THEN StrLess(Tail(a), Tail(b))
  ELSE Ord(Head(a)) < Ord(Head(b))

\* key.split(sep): the pieces between separators, empty pieces included
RECURSIVE SplitFrom(_, _, _)
SplitFrom(s, sep, cur) ==
  IF s = <<>> THEN <<cur>>
  ELSE IF Head(s) = sep THEN <<cur>> \o SplitFrom(Tail(s), sep, <<>>)
  ELSE SplitFrom(Tail(s), sep, Append(cur, Head(s)))

Split(s, sep) == SplitFrom(s, sep, <<>>)

\* [part for part in parts if part]
RECURSIVE NonEmptyParts(_)
NonEmptyParts(parts) ==
  IF parts = <<>> THEN <<>>
  ELSE IF Head(parts) = <<>> THEN NonEmptyParts(Tail(parts))
  ELSE <<Head(parts)>> \o NonEmptyParts(Tail(parts))

\* ------------------------------------------------------------------ values

\* A Python value: kind in none | str | int | float | bool | datetime | time
\* | list.  s is the text of a str (the ISO text of a datetime); n is the
\* number of an int or bool (True = 1), and twice the number of a float.
Val(kind, s, n) == [kind |-> kind, s |-> s, n |-> n]

None == Val("none", <<>>, 0)

StrV(s) == Val("str", s, 0)

IntV(n) == Val("int", <<>>, n)

Float2(twice) == Val("float", <<>>, twice)

BoolV(b) == Val("bool", <<>>, IF b THEN 1 ELSE 0)

\* a datetime.datetime whose isoformat() is iso
DateTime(iso) == Val("datetime", iso, 0)

\* a datetime.time cell value: not JSON serializable and left alone by
\* normalize_value
TimeOfDay == Val("time", <<>>, 0)

\* the empty list []
EmptyList == Val("list", <<>>, 0)

IsNumber(v) == v.kind \in {"int", "float", "bool"}

\* twice the numeric value, so that halves are integers
Twice(v) == IF v.kind = "float" THEN v.n ELSE 2 * v.n

\* Python ==: numbers (bool included) compare by value, the rest by kind
\* and content
PyEq(a, b) ==
  IF IsNumber(a) /\ IsNumber(b) THEN Twice(a) = Twice(b) ELSE a = b

\* Python truthiness
Truthy(v) ==
  CASE v.kind = "none" -> FALSE
    [] v.kind = "str" -> v.s # <<>>
    [] IsNumber(v) -> v.n # 0
    [] v.kind = "list" -> FALSE
    [] OTHER -> TRUE

\* decimal text of a natural number
RECURSIVE DigitsOf(_)
DigitsOf(n) ==
  IF n < 10 THEN <<Chars[5 + n]>>
  ELSE Append(DigitsOf(n \div 10), Chars[5 + (n % 10)])

\* the number a non-empty digit string denotes
RECURSIVE NumberOf(_)
NumberOf(s) ==
  IF Len(s) = 1 THEN Ord(s[1]) - 5
  ELSE 10 * NumberOf(SubSeq(s, 1, Len(s) - 1)) + (Ord(s[Len(s)]) - 5)

\* str(value)
PyStr(v) ==
  CASE v.kind = "none" -> <<"N", "o", "n", "e">>
    [] v.kind = "str" -> v.s
    [] v.kind = "int" -> DigitsOf(v.n)
    [] v.kind = "float" ->
         DigitsOf(v.n \div 2) \o <<".">> \o (IF v.n % 2 = 0 THEN <<"0">> ELSE <<"5">>)
    [] v.kind = "bool" ->
         IF v.n = 1 THEN <<"T", "r", "u", "e">> ELSE <<"F", "a", "l", "s", "e">>
    [] v.kind = "list" -> <<"[", "]">>
    [] OTHER -> v.s

\* --------------------------------------------------------- Python mappings

\* A dict is the sequence of its entries in insertion order, keys unique.
Has(d, key) == \E i \in 1..Len(d) : d[i].key = key

Get(d, key) == d[CHOOSE i \in 1..Len(d) : d[i].key = key].val

\* d[key] = val: an existing key keeps its place
DictSet(d, key, val) ==
  IF Has(d, key)
  THEN [i \in 1..Len(d) |-> IF d[i].key = key THEN [key |-> key, val |-> val] ELSE d[i]]
  ELSE Append(d, [key |-> key, val |-> val])

\* dict(items)
RECURSIVE DictOf(_)
DictOf(items) ==
  IF items = <<>> THEN <<>>
  ELSE LET n == Len(items)
       IN DictSet(DictOf(SubSeq(items, 1, n - 1)), items[n].key, items[n].val)

\* A node of a nested record: a leaf value or a nested mapping.
Leaf(v) == [t |-> "leaf", v |-> v, d |-> <<>>]

Nested(d) == [t |-> "dict", v |-> None, d |-> d]

\* ------------------------------------------------ excel_writer.flatten_dict

\* json.dumps(v) of a list leaf (only the empty list is modelled)
JsonDumps(v) == StrV(<<"[", "]">>)

\* new_key = f"{parent_key}{sep}{k}" if parent_key else str(k)
NewKey(parent_key, sep, k) ==
  IF parent_key # <<>> THEN parent_key \o <<sep>> \o k ELSE k

RECURSIVE flatten_items(_, _, _)
RECURSIVE flatten_dict(_, _, _)

\* the list `items` built by the loop over obj.items()
flatten_items(obj, parent_key, sep) ==
  IF obj = <<>> THEN <<>>
  ELSE LET k == Head(obj).key
           node == Head(obj).val
           new_key == NewKey(parent_key, sep, k)
           here ==
             IF node.t = "dict" THEN flatten_dict(node.d, new_key, sep)
             ELSE IF node.v.kind = "list"
                  THEN <<[key |-> new_key, val |-> JsonDumps(node.v)]>>
                  ELSE <<[key |-> new_key, val |-> node.v]>>
       IN here \o flatten_items(Tail(obj), parent_key, sep)

flatten_dict(obj, parent_key, sep) == DictOf(flatten_items(obj, parent_key, sep))

\* -------------------------------------------- import_tasks_cli.unflatten

\* The outcome of building a nested record: the record, or the error raised.
Ok(d) == [ok |-> TRUE, d |-> d]

Raised == [ok |-> FALSE, d |-> <<>>]

\* cursor = result; for part in parts[:-1]: cursor = cursor.setdefault(part,
\* {}); cursor[parts[-1]] = value.  A part that already holds a leaf makes
\* the leaf the cursor, and the next setdefault or item assignment on it
\* raises (AttributeError or TypeError).
RECURSIVE SetPath(_, _, _)
SetPath(d, parts, value) ==
  IF Len(parts) = 1 THEN Ok(DictSet(d, parts[1], Leaf(value)))
  ELSE LET part == Head(parts)
           below == IF Has(d, part) THEN Get(d, part) ELSE Nested(<<>>)
       IN IF below.t # "dict" THEN Raised
          ELSE LET sub == SetPath(below.d, Tail(parts), value)
               IN IF sub.ok THEN Ok(DictSet(d, part, Nested(sub.d))) ELSE Raised

KeyParts(key, sep) == NonEmptyParts(Split(key, sep))

\* mutant: a null value is set like any other
UnflattenStep_KeepsNull(result, key, value, sep) ==
  IF KeyParts(key, sep) = <<>> THEN Ok(result)
  ELSE SetPath(result, KeyParts(key, sep), value)

\* one iteration of the loop over flat.items()
UnflattenStep(result, key, value, sep) ==
  IF value = None THEN Ok(result)
  ELSE IF KeyParts(key, sep) = <<>> THEN Ok(result)
  ELSE SetPath(result, KeyParts(key, sep), value)

RECURSIVE UnflattenFrom(_, _, _)
UnflattenFrom(result, flat, sep) ==
  IF flat = <<>> THEN Ok(result)
  ELSE LET r == UnflattenStep(result, Head(flat).key, Head(flat).val, sep)
       IN IF r.ok THEN UnflattenFrom(r.d, Tail(flat), sep) ELSE Raised

unflatten(flat, sep) == UnflattenFrom(<<>>, flat, sep)

\* The leaves of a nested record: <<path, value>> with the keys from the root.
RECURSIVE Leaves(_)
Leaves(d) ==
  UNION { LET e == d[i]
          IN IF e.val.t = "leaf" THEN {<<(<<e.key>>), e.val.v>>}
             ELSE {<<(<<e.key>>) \o l[1], l[2]>> : l \in Leaves(e.val.d)}
        : i \in 1..Len(d) }

\* every key of a nested record, at every depth
RECURSIVE KeysOf(_)
KeysOf(d) ==
  UNION { {d[i].key} \cup (IF d[i].val.t = "dict" THEN KeysOf(d[i].val.d) ELSE {})
        : i \in 1..Len(d) }

\* ------------------------------------- import_tasks_cli.normalize_value

\* if math.isfinite(value) and float(int(value)) == float(value): int(value)
_normalize_numeric(value) ==
  IF value.n % 2 = 0 THEN IntV(value.n \div 2) ELSE value

IsIntLiteral(s) ==
  /\ s # <<>>
  /\ \A i \in 1..Len(s) : s[i] \in Digits
  /\ (Len(s) > 1 => s[1] # "0")

sTrue == <<"t", "r", "u", "e">>

sFalse == <<"f", "a", "l", "s", "e">>

\* json.loads(stripped) kept when it is a dict, list, int, float or bool.
\* The texts of the model are an integer literal, the empty list, or no
\* JSON at all (JSONDecodeError, or a parsed str / null, which is dropped).
JsonLoadsKept(stripped) ==
  IF IsIntLiteral(stripped) THEN IntV(NumberOf(stripped))
  ELSE IF stripped = <<"[", "]">> THEN EmptyList
  ELSE StrV(stripped)

normalize_value(value) ==
  CASE value.kind = "none" -> None
    [] value.kind = "float" -> _normalize_numeric(value)
    [] value.kind = "datetime" -> StrV(value.s)
    [] value.kind = "str" ->
         LET stripped == Strip(value.s)
             lowered == Lower(stripped)
         IN IF stripped = <<>> THEN None
            ELSE IF lowered \in {sTrue, sFalse} THEN BoolV(lowered = sTrue)
            ELSE JsonLoadsKept(stripped)
    [] OTHER -> value

\* --------------------------------------------- excel_writer.collect_headers

kId == <<"I", "d">>

kName == <<"N", "a", "m", "e">>

kType == <<"T", "y", "p", "e">>

kStartDate == <<"S", "t", "a", "r", "t", "D", "a", "t", "e">>

kEndDate == <<"E", "n", "d", "D", "a", "t", "e">>

kProjectId == <<"P", "r", "o", "j", "e", "c", "t", "I", "d">>

kTaskDomainId == <<"T", "a", "s", "k", "D", "o", "m", "a", "i", "n", "I", "d">>

preferred == <<kId, kName, kType, kStartDate, kEndDate, kProjectId, kTaskDomainId>>

\* mutant: the remaining keys are listed in descending order
RECURSIVE Sorted_Descending(_)
Sorted_Descending(set) ==
  IF set = {} THEN <<>>
  ELSE LET greatest == CHOOSE x \in set : \A y \in set \ {x} : StrLess(y, x)
       IN <<greatest>> \o Sorted_Descending(set \ {greatest})

\* sorted(seen)
RECURSIVE Sorted(_)
Sorted(set) ==
  IF set = {} THEN <<>>
  ELSE LET least == CHOOSE x \in set : \A y \in set \ {x} : StrLess(x, y)
       IN <<least>> \o Sorted(set \ {least})

\* [key for key in preferred if key in seen]
RECURSIVE PreferredIn(_, _)
PreferredIn(keys, seen) ==
  IF keys = <<>> THEN <<>>
  ELSE (IF Head(keys) \in seen THEN <<Head(keys)>> ELSE <<>>)
       \o PreferredIn(Tail(keys), seen)

DictKeys(d) == {d[i].key : i \in 1..Len(d)}

SeqToSet(q) == {q[i] : i \in 1..Len(q)}

collect_headers(rows, extra_headers) ==
  LET seen == extra_headers \cup UNION {DictKeys(rows[i]) : i \in 1..Len(rows)}
  IN PreferredIn(preferred, seen) \o Sorted(seen \ SeqToSet(preferred))

\* ------------------------------------------------------------- workbook

\* A fill: patternType is "none", "solid" or another pattern; the start
\* colour is of type "rgb" (text rgb) or "indexed" (palette index).
Fill(patternType, ctype, rgb, indexed) ==
  [patternType |-> patternType, ctype |-> ctype, rgb |-> rgb, indexed |-> indexed]

NoFill == Fill("none", "rgb", <<"0", "0", "0", "0", "0", "0", "0", "0">>, 0)

SolidRGB(rgb) == Fill("solid", "rgb", rgb, 0)

SolidIndexed(i) == Fill("solid", "indexed", <<>>, i)

\* A sheet: value[r][c] and fill[r][c] over nrows x ncols cells, and the
\* sheet attributes the export sets.
Sheet(value, fill, hidden, protected, cond_fmt) ==
  [value |-> value, fill |-> fill, hidden |-> hidden,
   protected |-> protected, cond_fmt |-> cond_fmt]

NRows(ws) == Len(ws.value)

NCols(ws) == Len(ws.value[1])

\* a sheet no cell of which was ever written has max_row = max_column = 1
BlankSheet == Sheet(<< <<None>> >>, << <<NoFill>> >>, FALSE, FALSE, FALSE)

\* ws.cell(row, column).value; a cell outside the used range is created empty
CellValue(ws, r, c) ==
  IF r <= NRows(ws) /\ c <= NCols(ws) THEN ws.value[r][c] ELSE None

CellFill(ws, r, c) ==
  IF r <= NRows(ws) /\ c <= NCols(ws) THEN ws.fill[r][c] ELSE NoFill

\* the sheet grown to hold cell (r, c)
Grown(ws, r, c) ==
  LET nr == IF r > NRows(ws) THEN r ELSE NRows(ws)
      nc == IF c > NCols(ws) THEN c ELSE NCols(ws)
  IN [ws EXCEPT !.value = [i \in 1..nr |-> [j \in 1..nc |-> CellValue(ws, i, j)]],
                !.fill = [i \in 1..nr |-> [j \in 1..nc |-> CellFill(ws, i, j)]]]

\* ws.cell(row=r, column=c, value=v): the cell is created; a None value is
\* not assigned
WriteCell(ws, r, c, v) ==
  LET g == Grown(ws, r, c)
  IN IF v = None THEN g ELSE [g EXCEPT !.value[r][c] = v]

sTasks == <<"t", "a", "s", "k", "s">>

sProject == <<"p", "r", "o", "j", "e", "c", "t">>

s_original == <<"_", "o", "r", "i", "g", "i", "n", "a", "l">>

\* ------------------------------------------ excel_writer.write_tasks_xlsx

\* ILLEGAL_CHARACTERS_RE.sub("", value) on strings
RemoveIllegal(s) == SelectSeq(s, LAMBDA ch : ch # CtrlChar)

_sanitize(value) ==
  IF value.kind = "str" THEN StrV(RemoveIllegal(value.s)) ELSE value

\* row.get(header)
DictGet(d, key) == IF Has(d, key) THEN Get(d, key) ELSE None

_ensure_sheet(book, name) ==
  IF name \in DOMAIN book THEN book
  ELSE [n \in DOMAIN book \cup {name} |-> IF n = name THEN BlankSheet ELSE book[n]]

_clear_values(ws) ==
  [ws EXCEPT !.value = [i \in 1..NRows(ws) |-> [j \in 1..NCols(ws) |-> None]]]

\* the header row and the data rows written cell by cell
RECURSIVE WriteCells(_, _, _)
WriteCells(ws, cells, at) ==
  IF at > Len(cells) THEN ws
  ELSE WriteCells(WriteCell(ws, cells[at].r, cells[at].c, cells[at].v), cells, at + 1)

\* the cells of a grid of values in writing order
GridCells(grid, first_row) ==
  LET nr == Len(grid)
      nc == IF nr = 0 THEN 0 ELSE Len(grid[1])
  IN [k \in 1..(nr * nc) |->
        LET i == ((k - 1) \div nc) + 1
            j == ((k - 1) % nc) + 1
        IN [r |-> first_row + i - 1, c |-> j, v |-> _sanitize(grid[i][j])]]

\* row 1 holds the headers, rows 2.. the flattened records in header order
TaskGrid(headers, flat_rows) ==
  IF headers = <<>> THEN <<>>
  ELSE <<[j \in 1..Len(headers) |-> StrV(headers[j])]>>
       \o [i \in 1..Len(flat_rows) |->
             [j \in 1..Len(headers) |-> DictGet(flat_rows[i], headers[j])]]

WriteTasksSheet(ws, headers, flat_rows) ==
  WriteCells(_clear_values(ws), GridCells(TaskGrid(headers, flat_rows), 1), 1)

\* The workbook write_tasks_xlsx saves, from the template's workbook.
write_tasks_xlsx(template, task_list, extra_hdrs, project_rows) ==
  LET flat_rows == [i \in 1..Len(task_list) |-> flatten_dict(task_list[i], <<>>, ".")]
      headers == collect_headers(flat_rows, extra_hdrs)
      b1 == _ensure_sheet(template, sProject)
      b2 == [b1 EXCEPT ![sProject] =
               WriteCells(IF project_rows # <<>> THEN _clear_values(@) ELSE @,
                          GridCells(project_rows, 1), 1)]
      b3 == _ensure_sheet(b2, sTasks)
      b4 == [b3 EXCEPT ![sTasks] = WriteTasksSheet(@, headers, flat_rows)]
      b5 == _ensure_sheet(b4, s_original)
      b6 == [b5 EXCEPT ![s_original] =
               [WriteTasksSheet(@, headers, flat_rows) EXCEPT !.hidden = TRUE]]
  IN [b6 EXCEPT ![sTasks] =
        [@ EXCEPT !.cond_fmt = (headers # <<>>), !.protected = TRUE]]

\* ----------------------------------------- import_tasks_cli: detection

UpperChar(ch) ==
  IF \E i \in 1..26 : LowerChars[i] = ch
  THEN UpperChars[CHOOSE i \in 1..26 : LowerChars[i] = ch]
  ELSE ch

\* str.upper()
Upper(s) == [i \in 1..Len(s) |-> UpperChar(s[i])]

rgbYellow8 == <<"F", "F", "F", "F", "F", "F", "0", "0">>

rgbYellow6 == <<"F", "F", "F", "F", "0", "0">>

rgbYellow0 == <<"0", "0", "F", "F", "F", "F", "0", "0">>

YELLOW_RGBS == {rgbYellow8, rgbYellow6, rgbYellow0}

YELLOW_INDEXED == {5, 6, 44}

BLUE_RGB == <<"F", "F", "0", "0", "B", "0", "F", "0">>

RED_RGB == <<"F", "F", "F", "F", "0", "0", "0", "0">>

INDEXED_YELLOW == <<"I", "N", "D", "E", "X", "E", "D", "_", "Y", "E", "L", "L", "O", "W">>

\* mutant: the indexed palette is not looked at
_cell_rgb_NoIndexed(fill) ==
  IF fill.patternType # "solid" THEN <<>>
  ELSE IF fill.ctype = "rgb" THEN Upper(fill.rgb)
  ELSE IF Upper(fill.rgb) \in YELLOW_RGBS THEN Upper(fill.rgb)
  ELSE <<>>

\* the text _cell_rgb returns; <<>> stands for None (and for "", equally
\* falsy to the caller)
_cell_rgb(fill) ==
  IF fill.patternType # "solid" THEN <<>>
  ELSE IF fill.ctype = "rgb" THEN Upper(fill.rgb)
  ELSE IF fill.ctype = "indexed" /\ fill.indexed \in YELLOW_INDEXED THEN INDEXED_YELLOW
  ELSE IF Upper(fill.rgb) \in YELLOW_RGBS THEN Upper(fill.rgb)
  ELSE <<>>

\* mutant: any colour _cell_rgb returns counts as a marker
IsMarked_AnyColour(fill) == _cell_rgb(fill) # <<>>

\* if rgb and (rgb in YELLOW_RGBS or rgb == "INDEXED_YELLOW")
IsMarked(fill) ==
  LET rgb == _cell_rgb(fill)
  IN rgb # <<>> /\ (rgb \in YELLOW_RGBS \/ rgb = INDEXED_YELLOW)

\* headers = [str(cell.value).strip() if cell.value is not None else ""]
HeaderOf(value) == IF value = None THEN <<>> ELSE Strip(PyStr(value))

HeadersOf(ws) == [c \in 1..NCols(ws) |-> HeaderOf(ws.value[1][c])]

\* cell_value not in (None, "")
IsEmptyValue(value) == value = None \/ value = StrV(<<>>)

InSeq(x, q) == \E i \in 1..Len(q) : q[i] = x

\* One pass of the loop over the cells of row r, from column c on.  acc holds
\* values, yellow_cells and has_value.  has_orig tells whether original_ws
\* was given.
RECURSIVE ScanCells(_, _, _, _, _, _, _)
ScanCells(ws, has_orig, orig, headers, r, c, acc) ==
  IF c > NCols(ws) THEN acc
  ELSE IF headers[c] = <<>> THEN ScanCells(ws, has_orig, orig, headers, r, c + 1, acc)
  ELSE LET cell_value == ws.value[r][c]
           coord == <<r, c>>
           marked == IsMarked(ws.fill[r][c])
           yellow1 == IF marked THEN Append(acc.yellow_cells, coord) ELSE acc.yellow_cells
           normalized_value == normalize_value(cell_value)
           original_value == normalize_value(CellValue(orig, r, c))
           yellow2 ==
             IF has_orig /\ ~PyEq(normalized_value, original_value) /\ ~InSeq(coord, yellow1)
             THEN Append(yellow1, coord) ELSE yellow1
       IN ScanCells(ws, has_orig, orig, headers, r, c + 1,
                    [values |-> DictSet(acc.values, headers[c], normalized_value),
                     yellow_cells |-> yellow2,
                     has_value |-> acc.has_value \/ ~IsEmptyValue(cell_value)])

ScanRow(ws, has_orig, orig, headers, r) ==
  ScanCells(ws, has_orig, orig, headers, r, 1,
            [values |-> <<>>, yellow_cells |-> <<>>, has_value |-> FALSE])

\* a or b or c or ""
RECURSIVE FirstTruthy(_)
FirstTruthy(vals) ==
  IF vals = <<>> THEN StrV(<<>>)
  ELSE IF Truthy(Head(vals)) THEN Head(vals) ELSE FirstTruthy(Tail(vals))

kID == <<"I", "D">>

kTaskId == <<"T", "a", "s", "k", "I", "d">>

kproject_id == <<"p", "r", "o", "j", "e", "c", "t", "_", "i", "d">>

TaskIdOf(values) ==
  Strip(PyStr(FirstTruthy(<<DictGet(values, kId), DictGet(values, kID),
                            DictGet(values, kTaskId)>>)))

ProjectIdOf(values) ==
  Strip(PyStr(FirstTruthy(<<DictGet(values, kProjectId), DictGet(values, kproject_id)>>)))

TaskRow(row_index, values, yellow_cells) ==
  [row_index |-> row_index, task_id |-> TaskIdOf(values),
   project_id |-> ProjectIdOf(values), flat_values |-> values,
   yellow_cells |-> yellow_cells]

\* the rows list after the loop has seen rows r..max_row
RECURSIVE CollectFrom(_, _, _, _, _)
CollectFrom(ws, has_orig, orig, headers, r) ==
  IF r > NRows(ws) THEN <<>>
  ELSE LET acc == ScanRow(ws, has_orig, orig, headers, r)
           rest == CollectFrom(ws, has_orig, orig, headers, r + 1)
       IN IF ~acc.has_value THEN rest
          ELSE IF acc.yellow_cells = <<>> THEN rest
          ELSE <<TaskRow(r, acc.values, acc.yellow_cells)>> \o rest

\* mutant: the rows are returned from the last sheet row to the first
collect_task_rows_Descending(ws, has_orig, orig) ==
  LET rows == CollectFrom(ws, has_orig, orig, HeadersOf(ws), 2)
  IN [i \in 1..Len(rows) |-> rows[Len(rows) + 1 - i]]

\* mutant: the shadow sheet is not compared against
collect_task_rows_NoShadow(ws, has_orig, orig) ==
  CollectFrom(ws, FALSE, orig, HeadersOf(ws), 2)

\* headers is never an empty list: row 1 of a sheet holds at least one cell
collect_task_rows(ws, has_orig, orig) ==
  CollectFrom(ws, has_orig, orig, HeadersOf(ws), 2)

\* ------------------------------------- import_tasks_cli: marking and saving

\* mutant: the whole row of each coordinate is filled
set_fill_WholeRow(ws, coords, rgb) ==
  [ws EXCEPT !.fill =
     [r \in 1..NRows(ws) |->
        [c \in 1..NCols(ws) |->
           IF \E i \in 1..Len(coords) : coords[i][1] = r
           THEN SolidRGB(rgb) ELSE ws.fill[r][c]]]]

RECURSIVE set_fill(_, _, _)
set_fill(ws, coords, rgb) ==
  IF coords = <<>> THEN ws
  ELSE LET g == Grown(ws, Head(coords)[1], Head(coords)[2])
       IN set_fill([g EXCEPT !.fill[Head(coords)[1]][Head(coords)[2]] = SolidRGB(rgb)],
                   Tail(coords), rgb)

\* p.rfind(ch), 1-based; 0 when ch does not occur
RFind(p, ch) ==
  IF \E i \in 1..Len(p) : p[i] = ch
  THEN CHOOSE i \in 1..Len(p) : p[i] = ch /\ \A j \in (i + 1)..Len(p) : p[j] # ch
  ELSE 0

RECURSIVE RStripSlash(_)
RStripSlash(p) ==
  IF p # <<>> /\ p[Len(p)] = "/" THEN RStripSlash(SubSeq(p, 1, Len(p) - 1)) ELSE p

\* posixpath.dirname
Dirname(p) ==
  LET head == SubSeq(p, 1, RFind(p, "/"))
  IN IF head # <<>> /\ \E i \in 1..Len(head) : head[i] # "/"
     THEN RStripSlash(head) ELSE head

\* posixpath.basename
Basename(p) == SubSeq(p, RFind(p, "/") + 1, Len(p))

\* genericpath._splitext: the extension starts at the last dot of the last
\* component, unless only dots precede it there
Splitext(p) ==
  LET sepIndex == RFind(p, "/")
      dotIndex == RFind(p, ".")
  IN IF dotIndex > sepIndex
        /\ \E i \in (sepIndex + 1)..(dotIndex - 1) : p[i] # "."
     THEN <<SubSeq(p, 1, dotIndex - 1), SubSeq(p, dotIndex, Len(p))>>
     ELSE <<p, <<>>>>

\* posixpath.join(a, b)
PathJoin(a, b) ==
  IF b # <<>> /\ b[1] = "/" THEN b
  ELSE IF a = <<>> \/ a[Len(a)] = "/" THEN a \o b
  ELSE a \o <<"/">> \o b

s_result == <<"_", "r", "e", "s", "u", "l", "t">>

\* mutant: the suffix is dropped
save_with_suffix_InPlace(original_path, suffix) ==
  PathJoin(Dirname(original_path),
           Splitext(Basename(original_path))[1] \o Splitext(Basename(original_path))[2])

\* the path save_with_suffix saves the workbook to
save_with_suffix(original_path, suffix) ==
  LET directory == Dirname(original_path)
      base == Basename(original_path)
      stem == Splitext(base)[1]
      ext == Splitext(base)[2]
  IN PathJoin(directory, stem \o suffix \o ext)

\* --------------------------------------------- round-trip input records

kA == <<"A">>

kB == <<"B">>

kAdotB == <<"A", ".", "B">>

\* Keys of the enumerated records: plain, holding the separator, and empty.
RecordKeys == {kA, kB, kAdotB, <<>>}

\* a leaf is null or not: flatten and unflatten look at nothing else of it
RecordLeaves == {None, IntV(1)}

RECURSIVE SizeOf(_)
SizeOf(d) ==
  IF d = <<>> THEN 0
  ELSE 1 + (IF Head(d).val.t = "dict" THEN SizeOf(Head(d).val.d) ELSE 0)
         + SizeOf(Tail(d))

\* every nested record with exactly n entries in all, keys unique per mapping
RECURSIVE RecordsOfSize(_)
RecordsOfSize(n) ==
  IF n = 0 THEN {<<>>}
  ELSE UNION {
         LET nodes == IF m = 1
                      THEN {Leaf(v) : v \in RecordLeaves} \cup {Nested(<<>>)}
                      ELSE {Nested(d) : d \in RecordsOfSize(m - 1)}
             rests == RecordsOfSize(n - m)
         IN UNION { { <<[key |-> k, val |-> nd]>> \o rest :
                        nd \in nodes, rest \in {r \in rests : ~Has(r, k)} }
                  : k \in RecordKeys }
       : m \in 1..n }

\* every nested record with at most n entries
RecordsUpTo(n) == UNION {RecordsOfSize(m) : m \in 0..n}

\* ------------------------------------------------------------ the inputs

sP == <<"P">>

\* the records the remote service may return for the project
TaskNested ==
  << [key |-> kId, val |-> Leaf(StrV(<<"1">>))],
     [key |-> kProjectId, val |-> Leaf(StrV(sP))],
     [key |-> kA, val |-> Nested(<< [key |-> kB, val |-> Leaf(IntV(1))] >>)] >>

TaskNoId ==
  << [key |-> kProjectId, val |-> Leaf(StrV(sP))],
     [key |-> kA, val |-> Leaf(StrV(<<"x">>))] >>

TaskRecords == {TaskNested, TaskNoId}

RECURSIVE SeqsUpTo(_, _)
SeqsUpTo(set, n) ==
  IF n = 0 THEN {<<>>}
  ELSE LET shorter == SeqsUpTo(set, n - 1)
       IN shorter \cup {Append(q, x) : q \in {t \in shorter : Len(t) = n - 1}, x \in set}

Batches == SeqsUpTo(TaskRecords, MaxTasks) \ {<<>>}

\* extra_headers: columns guaranteed present (export's DEFAULT_EXTRA_HEADERS)
ExtraHeaders == {kId, kProjectId, kA}

ProjectRows == << <<StrV(kId)>>, <<StrV(sP)>> >>

\* the template workbook: a tasks sheet holding a stale value
Template ==
  [n \in {sTasks} |->
     Sheet(<< <<StrV(<<"o", "l", "d">>)>> >>, << <<NoFill>> >>, FALSE, FALSE, FALSE)]

\* what a human types into a data cell
EditValues == {None, StrV(<<"B">>), BoolV(TRUE), TimeOfDay}

\* the fills a human (or another tool) applies to a data cell
HumanFills ==
  { SolidRGB(rgbYellow8), SolidRGB(rgbYellow6), SolidRGB(rgbYellow0),
    SolidIndexed(5), SolidIndexed(6), SolidIndexed(44), SolidIndexed(7),
    SolidRGB(RED_RGB), Fill("gray125", "rgb", rgbYellow8, 0) }

pIn == <<"a", ".", "x">>

\* every path of at most MaxPathLen characters
PathChars == {"a", ".", "/"}

Paths == SeqsUpTo(PathChars, MaxPathLen) \ {<<>>}

\* the outcomes of client.update_task: it returns, or raises
UpdateOutcomes == {"ok", "error"}

\* ------------------------------------------------------------------- state

VARIABLES
  pc,          \* the step the run is at
  R,           \* round trip: the record
  flat,        \* round trip: flatten_dict(R)
  rebuilt,     \* round trip: unflatten(flat), or the error it raised
  tasks,       \* export: the records fetched for the project
  wb,          \* the workbook, sheet name -> sheet
  edits,       \* number of edits the human has made to the exported file
  dialog,      \* the paths the import's file dialog may return
  excel_path,  \* import: the path returned by select_excel_file
  has_orig,    \* import: ws_tasks_original is not None
  task_rows,   \* import: the TaskRows detected
  idx,         \* import: position of the reconcile loop in task_rows
  success,     \* import: count of successful updates
  failures,    \* import: (row_index, reason) of each failed row
  calls,       \* the update_task calls made, in order
  saved,       \* the paths the import saved the workbook to, in order
  loaded,      \* import: the workbook as load_workbook returned it
  pass,        \* the number of the import run over this document
  prev_failures, \* the failures of the previous import run
  hdr_rows,    \* collect_headers: the flattened rows
  hdr_extra,   \* collect_headers: extra_headers
  ordered,     \* collect_headers: the list returned last
  first_ordered, \* collect_headers: the list returned for the first order
  fs,          \* the paths that exist in the file system
  out_dir,     \* next_available_path: base_dir
  file_name,   \* next_available_path: base_name
  candidate,   \* next_available_path: candidate
  nap_n,       \* next_available_path: n
  written      \* export: the paths written by wb.save, with what was there

vars == <<pc, R, flat, rebuilt, tasks, wb, edits, dialog, excel_path, has_orig,
          task_rows, idx, success, failures, calls, saved, loaded, pass,
          prev_failures, hdr_rows, hdr_extra, ordered, first_ordered, fs,
          out_dir, file_name, candidate, nap_n, written>>

rtVars == <<R, flat, rebuilt>>

importVars == <<excel_path, has_orig, task_rows, idx, success, failures, calls, saved,
                loaded, pass, prev_failures>>

hdrVars == <<hdr_rows, hdr_extra, ordered, first_ordered>>

napVars == <<fs, out_dir, file_name, candidate, nap_n, written>>

toolVars == <<hdrVars, napVars>>

NoImport ==
  /\ excel_path = <<>>
  /\ has_orig = FALSE
  /\ task_rows = <<>>
  /\ idx = 1
  /\ success = 0
  /\ failures = <<>>
  /\ calls = <<>>
  /\ saved = <<>>
  /\ loaded = <<>>
  /\ pass = 1
  /\ prev_failures = <<>>

NoHeaders ==
  /\ hdr_rows = <<>>
  /\ hdr_extra = <<>>
  /\ ordered = <<>>
  /\ first_ordered = <<>>

NoPathSearch ==
  /\ fs = {}
  /\ out_dir = <<>>
  /\ file_name = <<>>
  /\ candidate = <<>>
  /\ nap_n = 1
  /\ written = <<>>

NoRoundTrip ==
  /\ R = <<>>
  /\ flat = <<>>
  /\ rebuilt = Ok(<<>>)

\* ------------------------------------------------------------------ export

Init ==
  /\ pc = "start"
  /\ tasks \in Batches
  /\ wb = Template
  /\ edits = 0
  /\ dialog = {pIn}
  /\ NoImport
  /\ NoRoundTrip
  /\ NoHeaders
  /\ NoPathSearch

\* export_tasks_cli.main's call of write_tasks_xlsx
Export ==
  /\ pc = "start"
  /\ wb' = write_tasks_xlsx(Template, tasks, ExtraHeaders, ProjectRows)
  /\ pc' = "exported"
  /\ UNCHANGED <<rtVars, tasks, edits, dialog, importVars, toolVars>>

\* ------------------------------------------------- the human, out of band

\* a data cell's value is retyped
HumanEditValue ==
  /\ pc = "exported"
  /\ edits < MaxEdits
  /\ \E r \in 2..NRows(wb[sTasks]), c \in 1..NCols(wb[sTasks]), v \in EditValues :
       /\ wb[sTasks].value[r][c] # v
       /\ wb' = [wb EXCEPT ![sTasks].value[r][c] = v]
  /\ edits' = edits + 1
  /\ UNCHANGED <<pc, rtVars, tasks, dialog, importVars, toolVars>>

\* a header cell is cleared
HumanClearHeader ==
  /\ pc = "exported"
  /\ edits < MaxEdits
  /\ \E c \in 1..NCols(wb[sTasks]) :
       /\ wb[sTasks].value[1][c] # None
       /\ wb' = [wb EXCEPT ![sTasks].value[1][c] = None]
  /\ edits' = edits + 1
  /\ UNCHANGED <<pc, rtVars, tasks, dialog, importVars, toolVars>>

\* a data cell is given a fill
HumanFill ==
  /\ pc = "exported"
  /\ edits < MaxEdits
  /\ \E r \in 2..NRows(wb[sTasks]), c \in 1..NCols(wb[sTasks]), f \in HumanFills :
       /\ wb[sTasks].fill[r][c] # f
       /\ wb' = [wb EXCEPT ![sTasks].fill[r][c] = f]
  /\ edits' = edits + 1
  /\ UNCHANGED <<pc, rtVars, tasks, dialog, importVars, toolVars>>

\* the sheet main looks for: tasks_sheet_name + "_original"
original_sheet_name == sTasks \o s_original

\* the human adds a 'tasks_original' sheet, as main's hint asks: a copy of
\* the hidden sheet of the export
HumanProvideShadow ==
  /\ pc = "exported"
  /\ original_sheet_name \notin DOMAIN wb
  /\ s_original \in DOMAIN wb
  /\ wb' = [n \in DOMAIN wb \cup {original_sheet_name} |->
              IF n = original_sheet_name THEN wb[s_original] ELSE wb[n]]
  /\ UNCHANGED <<pc, rtVars, tasks, edits, dialog, importVars, toolVars>>

\* ------------------------------------------------- import_tasks_cli.main

\* main up to the reconcile loop: file dialog, load, sheet lookup, detection
MainDetect ==
  /\ pc = "exported"
  /\ \E path \in dialog :
       LET found == sTasks \in DOMAIN wb
           orig_found == original_sheet_name \in DOMAIN wb
           rows == collect_task_rows(wb[sTasks], orig_found,
                                     IF orig_found THEN wb[original_sheet_name]
                                     ELSE BlankSheet)
       IN /\ excel_path' = path
          /\ loaded' = IF path = <<>> THEN loaded ELSE wb
          /\ IF path = <<>> \/ ~found
             THEN /\ pc' = "exit1"
                  /\ UNCHANGED <<has_orig, task_rows>>
             ELSE /\ has_orig' = orig_found
                  /\ task_rows' = rows
                  /\ pc' = IF rows = <<>> THEN "exit0" ELSE "loop"
  /\ UNCHANGED <<rtVars, tasks, wb, edits, dialog, idx, success, failures, calls, saved,
                 pass, prev_failures, toolVars>>

\* json.dumps(payload) raises TypeError on a value it cannot encode
Serializable(payload) == \A l \in Leaves(payload) : l[2].kind # "time"

Failure(task_row, reason) == [row_index |-> task_row.row_index, reason |-> reason]

\* mutant: an error raised by update_task is not caught as a failure
RowOutcome_SwallowsError(task_row, outcome) ==
  IF task_row.task_id = <<>> THEN "no_id"
  ELSE IF task_row.project_id = <<>> THEN "no_project"
  ELSE IF ~unflatten(task_row.flat_values, ".").ok THEN "raised"
  ELSE IF ~Serializable(unflatten(task_row.flat_values, ".").d) THEN "not_serializable"
  ELSE "updated"

\* how one iteration of the reconcile loop ends for task_row
RowOutcome(task_row, outcome) ==
  IF task_row.task_id = <<>> THEN "no_id"
  ELSE IF task_row.project_id = <<>> THEN "no_project"
  ELSE IF ~unflatten(task_row.flat_values, ".").ok THEN "raised"
  ELSE IF ~Serializable(unflatten(task_row.flat_values, ".").d) THEN "not_serializable"
  ELSE IF outcome = "error" THEN "update_failed"
  ELSE "updated"

\* one iteration of `for task_row in task_rows`
MainRow ==
  /\ pc = "loop"
  /\ idx <= Len(task_rows)
  /\ \E outcome \in UpdateOutcomes :
       LET task_row == task_rows[idx]
           how == RowOutcome(task_row, outcome)
           payload == unflatten(task_row.flat_values, ".").d
       IN IF how = "raised"
          THEN /\ pc' = "crashed"
               /\ UNCHANGED <<wb, idx, success, failures, calls>>
          ELSE /\ pc' = "loop"
               /\ idx' = idx + 1
               /\ calls' =
                    IF how \in {"update_failed", "updated"}
                    THEN Append(calls, [row_index |-> task_row.row_index,
                                        project_id |-> task_row.project_id,
                                        task_id |-> task_row.task_id,
                                        payload |-> payload,
                                        outcome |-> outcome])
                    ELSE calls
               /\ success' = IF how = "updated" THEN success + 1 ELSE success
               /\ failures' =
                    IF how = "updated" THEN failures
                    ELSE Append(failures, Failure(task_row, how))
               /\ wb' = [wb EXCEPT ![sTasks] =
                           set_fill(@, task_row.yellow_cells,
                                    IF how = "updated" THEN BLUE_RGB ELSE RED_RGB)]
  /\ UNCHANGED <<rtVars, tasks, edits, dialog, excel_path, has_orig, task_rows, saved,
                 loaded, pass, prev_failures, toolVars>>

\* after the loop: save_with_suffix(wb, excel_path) and the summary
MainSave ==
  /\ pc = "loop"
  /\ idx > Len(task_rows)
  /\ saved' = Append(saved, save_with_suffix(excel_path, s_result))
  /\ pc' = "done"
  /\ UNCHANGED <<rtVars, tasks, wb, edits, dialog, excel_path, has_orig, task_rows,
                 idx, success, failures, calls, loaded, pass, prev_failures, toolVars>>

Next ==
  \/ Export
  \/ HumanEditValue
  \/ HumanClearHeader
  \/ HumanFill
  \/ HumanProvideShadow
  \/ MainDetect
  \/ MainRow
  \/ MainSave

Spec == Init /\ [][Next]_vars

\* -------------------------------------------------- round-trip specification

InitRT ==
  /\ pc = "rt_record"
  /\ R \in RecordsUpTo(MaxNodes)
  /\ flat = <<>>
  /\ rebuilt = Ok(<<>>)
  /\ tasks = <<>>
  /\ wb = Template
  /\ edits = 0
  /\ dialog = {}
  /\ NoImport
  /\ NoHeaders
  /\ NoPathSearch

RTFlatten ==
  /\ pc = "rt_record"
  /\ flat' = flatten_dict(R, <<>>, ".")
  /\ pc' = "rt_flat"
  /\ UNCHANGED <<R, rebuilt, tasks, wb, edits, dialog, importVars, toolVars>>

RTUnflatten ==
  /\ pc = "rt_flat"
  /\ rebuilt' = unflatten(flat, ".")
  /\ pc' = "rt_done"
  /\ UNCHANGED <<R, flat, tasks, wb, edits, dialog, importVars, toolVars>>

NextRT == RTFlatten \/ RTUnflatten

SpecRT == InitRT /\ [][NextRT]_vars

\* ------------------------------------------ import of a file at any path

\* an exported workbook in which a human has marked one cell yellow
MarkedBook ==
  [write_tasks_xlsx(Template, <<TaskNested>>, ExtraHeaders, ProjectRows)
     EXCEPT ![sTasks].fill[2][1] = SolidRGB(rgbYellow8)]

InitPath ==
  /\ pc = "exported"
  /\ tasks = <<TaskNested>>
  /\ wb = MarkedBook
  /\ edits = 1
  /\ dialog \in {{p} : p \in Paths}
  /\ NoImport
  /\ NoRoundTrip
  /\ NoHeaders
  /\ NoPathSearch

NextPath == MainDetect \/ MainRow \/ MainSave

SpecPath == InitPath /\ [][NextPath]_vars

\* ------------------------------------ import of any document, and again

\* what was done to the exported document before it is selected for import
DocDamages == {"none", "no_sheet", "no_header", "blank_row", "edit"}

\* The exported workbook of batch: with a 'tasks_original' copy of the
\* shadow sheet or not; without its tasks sheet, with row 1 emptied, with
\* the values of row 2 emptied, or with 'B' typed into cell (2, 3); the
\* cells of marks filled yellow.
Doc(batch, shadow, damage, marks) ==
  LET exported == write_tasks_xlsx(Template, batch, ExtraHeaders, ProjectRows)
      book == IF shadow
              THEN [nm \in DOMAIN exported \cup {original_sheet_name} |->
                      IF nm = original_sheet_name THEN exported[s_original]
                      ELSE exported[nm]]
              ELSE exported
      live == book[sTasks]
      blank == [c \in 1..NCols(live) |-> None]
      values == CASE damage = "no_header" -> [live.value EXCEPT ![1] = blank]
                  [] damage = "blank_row" -> [live.value EXCEPT ![2] = blank]
                  [] damage = "edit" -> [live.value EXCEPT ![2][3] = StrV(kB)]
                  [] OTHER -> live.value
      fills == [r \in 1..NRows(live) |->
                  [c \in 1..NCols(live) |->
                     IF <<r, c>> \in marks THEN SolidRGB(rgbYellow8)
                     ELSE live.fill[r][c]]]
  IN IF damage = "no_sheet"
     THEN [nm \in DOMAIN book \ {sTasks} |-> book[nm]]
     ELSE [book EXCEPT ![sTasks].value = values, ![sTasks].fill = fills]

\* the documents made from batch: any set of first-column data cells marked
Docs(batch) ==
  { Doc(batch, shadow, damage, marks) :
      shadow \in BOOLEAN, damage \in DocDamages,
      marks \in SUBSET {<<r, 1>> : r \in 2..(Len(batch) + 1)} }

InitImport ==
  /\ pc = "exported"
  /\ tasks \in Batches
  /\ wb \in Docs(tasks)
  /\ edits = 0
  /\ dialog \in {{pIn}, {<<>>}}
  /\ NoImport
  /\ NoRoundTrip
  /\ NoHeaders
  /\ NoPathSearch

\* the human runs the import again, on the result document just saved
Rerun ==
  /\ pc = "done"
  /\ pass < MaxPasses
  /\ pass' = pass + 1
  /\ prev_failures' = failures
  /\ dialog' = {saved[Len(saved)]}
  /\ excel_path' = <<>>
  /\ has_orig' = FALSE
  /\ task_rows' = <<>>
  /\ idx' = 1
  /\ success' = 0
  /\ failures' = <<>>
  /\ calls' = <<>>
  /\ saved' = <<>>
  /\ pc' = "exported"
  /\ UNCHANGED <<rtVars, tasks, wb, edits, loaded, toolVars>>

NextImport == MainDetect \/ MainRow \/ MainSave \/ Rerun

SpecImport == InitImport /\ [][NextImport]_vars

\* ----------------------------------------- header resolution of a batch

ka == <<"a">>

\* keys of the flattened rows, and the headers passed as extra_headers
HdrRowKeys == {kStartDate, kB}

HdrExtraKeys == {kType, kB, ka}

\* the sequences over set without repetition
RECURSIVE DistinctSeqs(_)
DistinctSeqs(set) ==
  {<<>>} \cup UNION { {<<x>> \o q : q \in DistinctSeqs(set \ {x})} : x \in set }

\* a flattened row with the given keys, in insertion order
HdrRow(keys) == [i \in 1..Len(keys) |-> [key |-> keys[i], val |-> None]]

HdrRowSets(k) == SeqsUpTo({HdrRow(q) : q \in DistinctSeqs(HdrRowKeys)}, k)

HdrExtras(k) == SeqsUpTo(HdrExtraKeys, k)

\* the orders in which the elements of q may be given
Perms(q) ==
  { [i \in 1..Len(q) |-> q[f[i]]] :
      f \in {g \in [1..Len(q) -> 1..Len(q)] :
               \A i, j \in 1..Len(q) : i # j => g[i] # g[j]} }

InitHdr ==
  /\ pc = "hdr_start"
  /\ hdr_rows \in HdrRowSets(MaxHdrRows)
  /\ hdr_extra \in HdrExtras(MaxHdrRows)
  /\ ordered = <<>>
  /\ first_ordered = <<>>
  /\ tasks = <<>>
  /\ wb = Template
  /\ edits = 0
  /\ dialog = {}
  /\ NoImport
  /\ NoRoundTrip
  /\ NoPathSearch

\* headers = collect_headers(flat_rows, extra_headers=extra_headers)
HdrCollect ==
  /\ pc \in {"hdr_start", "hdr_permuted"}
  /\ ordered' = collect_headers(hdr_rows, SeqToSet(hdr_extra))
  /\ first_ordered' = IF pc = "hdr_start" THEN ordered' ELSE first_ordered
  /\ pc' = IF pc = "hdr_start" THEN "hdr_once" ELSE "hdr_done"
  /\ UNCHANGED <<rtVars, tasks, wb, edits, dialog, importVars, hdr_rows, hdr_extra, napVars>>

\* the same rows and the same extra headers arrive in another order
HdrPermute ==
  /\ pc = "hdr_once"
  /\ hdr_rows' \in Perms(hdr_rows)
  /\ hdr_extra' \in Perms(hdr_extra)
  /\ pc' = "hdr_permuted"
  /\ UNCHANGED <<rtVars, tasks, wb, edits, dialog, importVars, ordered, first_ordered, napVars>>

NextHdr == HdrCollect \/ HdrPermute

SpecHdr == InitHdr /\ [][NextHdr]_vars

\* ------------------------------------- excel_writer.next_available_path

\* candidate number k: os.path.join(base_dir, f"{root}{ext}") for k = 0 and
\* os.path.join(base_dir, f"{root} ({k}){ext}") for k >= 1
CandidateName(base_dir, base_name, k) ==
  LET root == Splitext(base_name)[1]
      ext == Splitext(base_name)[2]
  IN IF k = 0 THEN PathJoin(base_dir, root \o ext)
     ELSE PathJoin(base_dir, root \o <<" ", "(">> \o DigitsOf(k) \o <<")">> \o ext)

\* mutant: the file system is not asked
PathExists_Never(files, path) == FALSE

\* os.path.exists(path)
PathExists(files, path) == path \in files

\* the output directories and the file names f"tasks_{safe_name}{output_ext}"
OutDirs == {<<>>, <<"d">>}

FileNames == {<<"t", ".", "x">>, <<"t">>, <<".", "x">>}

InitNap ==
  /\ pc = "nap_start"
  /\ out_dir \in OutDirs
  /\ file_name \in FileNames
  /\ fs \in SUBSET {CandidateName(out_dir, file_name, k) : k \in 0..(MaxFiles - 1)}
  /\ candidate = <<>>
  /\ nap_n = 1
  /\ written = <<>>
  /\ tasks = <<>>
  /\ wb = Template
  /\ edits = 0
  /\ dialog = {}
  /\ NoImport
  /\ NoRoundTrip
  /\ NoHeaders

\* root, ext = ...; candidate = ...; n = 1
NapStart ==
  /\ pc = "nap_start"
  /\ candidate' = CandidateName(out_dir, file_name, 0)
  /\ nap_n' = 1
  /\ pc' = "nap_loop"
  /\ UNCHANGED <<rtVars, tasks, wb, edits, dialog, importVars, hdrVars, fs, out_dir,
                 file_name, written>>

\* one iteration of `while os.path.exists(candidate)`
NapStep ==
  /\ pc = "nap_loop"
  /\ PathExists(fs, candidate)
  /\ candidate' = CandidateName(out_dir, file_name, nap_n)
  /\ nap_n' = nap_n + 1
  /\ UNCHANGED <<pc, rtVars, tasks, wb, edits, dialog, importVars, hdrVars, fs, out_dir,
                 file_name, written>>

\* return candidate
NapReturn ==
  /\ pc = "nap_loop"
  /\ ~PathExists(fs, candidate)
  /\ pc' = "nap_returned"
  /\ UNCHANGED <<rtVars, tasks, wb, edits, dialog, importVars, hdrVars, napVars>>

\* wb.save(out_path): the file is created, or replaced if it was there
ExportSave ==
  /\ pc = "nap_returned"
  /\ written' = Append(written, [path |-> candidate, existed |-> candidate \in fs])
  /\ fs' = fs \cup {candidate}
  /\ pc' = "nap_saved"
  /\ UNCHANGED <<rtVars, tasks, wb, edits, dialog, importVars, hdrVars, out_dir, file_name,
                 candidate, nap_n>>

\* the export is run again into the same directory
ExportAgain ==
  /\ pc = "nap_saved"
  /\ Cardinality(fs) <= MaxFiles
  /\ pc' = "nap_start"
  /\ UNCHANGED <<rtVars, tasks, wb, edits, dialog, importVars, hdrVars, napVars>>

NextNap == NapStart \/ NapStep \/ NapReturn \/ ExportSave \/ ExportAgain

SpecNap == InitNap /\ [][NextNap]_vars

\* ================================================================== claims

Live == wb[sTasks]

\* detection has just run: the sheet is still as loaded
JustDetected == (pc = "loop" /\ idx = 1) \/ pc = "exit0"

DataCells == {<<r, c>> \in (2..NRows(Live)) \X (1..NCols(Live)) : TRUE}

InTaskRow(r, c) ==
  \E i \in 1..Len(task_rows) :
    task_rows[i].row_index = r /\ InSeq(<<r, c>>, task_rows[i].yellow_cells)

IsTaskRow(r) == \E i \in 1..Len(task_rows) : task_rows[i].row_index = r

\* the fill is solid and its colour is one of the six edited encodings
RecognizedEdited(fill) ==
  /\ fill.patternType = "solid"
  /\ \/ fill.ctype = "rgb" /\ Upper(fill.rgb) \in {rgbYellow8, rgbYellow6, rgbYellow0}
     \/ fill.ctype = "indexed" /\ fill.indexed \in {5, 6, 44}

HeaderAt(c) == HeaderOf(Live.value[1][c])

\* the row has a non-empty cell in some column
RowNonBlank(r) == \E c \in 1..NCols(Live) : ~IsEmptyValue(Live.value[r][c])

\* the row has a non-empty cell under a non-empty header
RowHasHeadedValue(r) ==
  \E c \in 1..NCols(Live) : HeaderAt(c) # <<>> /\ ~IsEmptyValue(Live.value[r][c])

\* the normalized values of the live cell and of the shadow cell compare
\* unequal (Python !=)
DiffersFrom(sheet, r, c) ==
  ~PyEq(normalize_value(Live.value[r][c]), normalize_value(CellValue(sheet, r, c)))

\* C1 (as claimed): after an export, a data cell whose value a human changed
\* and left without any fill is in the changed-cell list of a TaskRow the
\* importer returns, the sheet the export wrote being the diff baseline.
C1_ExportShadowIsBaseline ==
  JustDetected =>
    \A rc \in DataCells :
      (/\ Live.value[rc[1]][rc[2]] # wb[s_original].value[rc[1]][rc[2]]
       /\ Live.fill[rc[1]][rc[2]] = NoFill)
      => InTaskRow(rc[1], rc[2])

C3_MarkedCellDetected_AnyColumn ==
  JustDetected =>
    \A rc \in DataCells :
      (RowNonBlank(rc[1]) /\ RecognizedEdited(Live.fill[rc[1]][rc[2]]))
      => InTaskRow(rc[1], rc[2])

\* C3 (amended): every data cell under a non-empty header with a recognized
\* edited fill, in a row that has a non-empty cell under a non-empty header,
\* is in its row's changed-cell list, with or without a shadow sheet.
C3_MarkedCellDetected ==
  JustDetected =>
    \A rc \in DataCells :
      (/\ RowHasHeadedValue(rc[1])
       /\ HeaderAt(rc[2]) # <<>>
       /\ RecognizedEdited(Live.fill[rc[1]][rc[2]]))
      => InTaskRow(rc[1], rc[2])

\* C3 witness: an indexed-yellow cell whose value equals the shadow's is
\* returned, a shadow sheet being present.
C3_Witness ==
  /\ JustDetected /\ has_orig
  /\ \E rc \in DataCells :
       /\ Live.fill[rc[1]][rc[2]] = SolidIndexed(44)
       /\ ~DiffersFrom(wb[original_sheet_name], rc[1], rc[2])
       /\ InTaskRow(rc[1], rc[2])

Unchanged(r, c) ==
  /\ ~RecognizedEdited(Live.fill[r][c])
  /\ (has_orig => ~DiffersFrom(wb[original_sheet_name], r, c))

\* C4: a cell without a recognized fill whose value equals the shadow's (or
\* with no shadow) is in no changed-cell list; a row of such cells is no
\* TaskRow; no shadow and no marked cell give zero TaskRows.
C4_UnchangedNeverReported ==
  JustDetected =>
    /\ \A rc \in DataCells : Unchanged(rc[1], rc[2]) => ~InTaskRow(rc[1], rc[2])
    /\ \A r \in 2..NRows(Live) :
         (\A c \in 1..NCols(Live) : Unchanged(r, c)) => ~IsTaskRow(r)
    /\ (~has_orig /\ \A rc \in DataCells : ~RecognizedEdited(Live.fill[rc[1]][rc[2]]))
         => task_rows = <<>>

\* C4 witness: a returned row holds a changed cell and an unchanged cell
\* that carries an unrecognized colour, and another row is not returned.
C4_Witness ==
  /\ pc = "loop" /\ idx = 1 /\ has_orig
  /\ \E rc \in DataCells :
       /\ IsTaskRow(rc[1])
       /\ Live.fill[rc[1]][rc[2]] = SolidRGB(RED_RGB)
       /\ ~InTaskRow(rc[1], rc[2])
  /\ \E r \in 2..NRows(Live) : ~IsTaskRow(r)

Ended == pc \in {"done", "crashed"}

CallsFor(row_index) == {i \in 1..Len(calls) : calls[i].row_index = row_index}

FailuresFor(row_index) == {i \in 1..Len(failures) : failures[i].row_index = row_index}

AllCellsAre(task_row, rgb) ==
  \A i \in 1..Len(task_row.yellow_cells) :
    Live.fill[task_row.yellow_cells[i][1]][task_row.yellow_cells[i][2]] = SolidRGB(rgb)

\* C5 (as claimed): when the run has ended, every TaskRow without an Id, or
\* without a ProjectId, has no update call, exactly one failure entry and
\* all its changed cells in the failure colour.
C5_MissingIdIsLocalFailure ==
  Ended =>
    \A i \in 1..Len(task_rows) :
      (task_rows[i].task_id = <<>> \/ task_rows[i].project_id = <<>>)
      => /\ CallsFor(task_rows[i].row_index) = {}
         /\ Cardinality(FailuresFor(task_rows[i].row_index)) = 1
         /\ AllCellsAre(task_rows[i], RED_RGB)

\* the run made an update call for each of the N >= 1 TaskRows, and only the
\* call for row k raised
OnlyCallFails(k) ==
  /\ pc = "done"
  /\ Len(calls) = Len(task_rows)
  /\ \A i \in 1..Len(calls) : calls[i].outcome = (IF i = k THEN "error" ELSE "ok")

\* C6: N TaskRows with an update call each, of which only the call for row k
\* fails: one failure entry, for row k, N-1 successes, row k's changed cells
\* red and every other TaskRow's changed cells blue.
C6_OneFailureAmongN ==
  \A k \in 1..Len(task_rows) :
    OnlyCallFails(k) =>
      /\ Len(failures) = 1
      /\ failures[1].row_index = task_rows[k].row_index
      /\ success = Len(task_rows) - 1
      /\ \A i \in 1..Len(task_rows) :
           AllCellsAre(task_rows[i], IF i = k THEN RED_RGB ELSE BLUE_RGB)

\* C6 witness: two TaskRows, the call for the second one fails.
C6_Witness == Len(task_rows) = 2 /\ OnlyCallFails(2)

\* C7 (as claimed): no run ends by an error escaping the loop; a run that
\* detected TaskRows saves the result document, with every TaskRow counted
\* once, as a success or as a failure, and its changed cells marked.
C7_EveryRowReachesAnOutcome ==
  /\ pc # "crashed"
  /\ pc = "done" =>
       /\ Len(saved) = 1
       /\ success + Len(failures) = Len(task_rows)
       /\ \A i \in 1..Len(task_rows) :
            \/ Cardinality(FailuresFor(task_rows[i].row_index)) = 1
                 /\ AllCellsAre(task_rows[i], RED_RGB)
            \/ FailuresFor(task_rows[i].row_index) = {}
                 /\ AllCellsAre(task_rows[i], BLUE_RGB)

\* C8 (as claimed): in the payload of every update call, each field of the
\* row whose cell still holds the exported, non-null value is sent with that
\* value and type, and the call is addressed to the row's own ProjectId and
\* Id.
C8_PayloadKeepsExportedValues ==
  \A i \in 1..Len(calls) :
    LET r == calls[i].row_index
    IN /\ \A c \in 1..NCols(Live) :
            (/\ HeaderAt(c) # <<>>
             /\ Live.value[1][c] = wb[s_original].value[1][c]
             /\ Live.value[r][c] = wb[s_original].value[r][c]
             /\ Live.value[r][c] # None)
            => <<KeyParts(HeaderAt(c), "."), Live.value[r][c]>> \in Leaves(calls[i].payload)
       /\ \A c \in 1..NCols(Live) :
            /\ HeaderAt(c) = kId => StrV(calls[i].task_id) = Live.value[r][c]
            /\ HeaderAt(c) = kProjectId => StrV(calls[i].project_id) = Live.value[r][c]

OutPath == saved[1]

\* C9: the import saves at most once, after the loop, to
\* <directory>/<stem>_result<extension> of the input path, which is never
\* the input path.
C9_NeverSavesToInputPath ==
  /\ Len(saved) <= 1
  /\ saved # <<>> =>
       /\ pc = "done"
       /\ OutPath # excel_path
       /\ Dirname(OutPath) = Dirname(excel_path)
       /\ Basename(OutPath) =
            Splitext(Basename(excel_path))[1] \o s_result \o Splitext(Basename(excel_path))[2]

\* C9 witness: a file with an extension, in a directory, was imported and
\* the result saved.
C9_Witness ==
  /\ pc = "done" /\ saved # <<>>
  /\ Dirname(excel_path) # <<>>
  /\ Splitext(Basename(excel_path))[2] # <<>>

NonNullLeaves(d) == {l \in Leaves(d) : l[2] # None}

\* C10 (as claimed): for every record, keys with the separator and empty
\* keys included, unflatten(flatten_dict(R)) has exactly R's non-null leaves
\* at their paths.
C10_RoundTrip_AnyKeys ==
  pc = "rt_done" => (rebuilt.ok /\ Leaves(rebuilt.d) = NonNullLeaves(R))

PlainKey(k) == k # <<>> /\ \A i \in 1..Len(k) : k[i] # "."

\* C10 (amended): for every record whose keys, at every depth, are non-empty
\* and free of the separator, unflatten(flatten_dict(R)) has exactly R's
\* non-null leaves at their paths and no path for a null leaf.
C10_RoundTrip ==
  (pc = "rt_done" /\ \A k \in KeysOf(R) : PlainKey(k)) =>
    (rebuilt.ok /\ Leaves(rebuilt.d) = NonNullLeaves(R))

\* C10 witness: a record with plain keys, a nested non-null leaf and a null
\* leaf has made the round trip.
C10_Witness ==
  /\ pc = "rt_done"
  /\ \A k \in KeysOf(R) : PlainKey(k)
  /\ \E l \in Leaves(R) : Len(l[1]) = 2 /\ l[2] # None
  /\ \E l \in Leaves(R) : l[2] = None

HdrDone == pc \in {"hdr_once", "hdr_done"}

HdrUnion == SeqToSet(hdr_extra) \cup UNION {DictKeys(hdr_rows[i]) : i \in 1..Len(hdr_rows)}

\* the elements of q that are in set, in q's order
Restrict(q, set) == SelectSeq(q, LAMBDA x : x \in set)

\* C11: collect_headers returns the same list for every order of the same
\* rows and extra headers; the list has no duplicates, holds exactly the
\* union of the row keys and the extra headers, starts with the preferred
\* keys that are in the union, in their fixed order, and lists the other
\* keys after them in ascending lexicographic order.
C11_HeadersDeterministic ==
  HdrDone =>
    /\ ordered = first_ordered
    /\ \A i, j \in 1..Len(ordered) : i # j => ordered[i] # ordered[j]
    /\ SeqToSet(ordered) = HdrUnion
    /\ LET np == Cardinality(HdrUnion \cap SeqToSet(preferred))
       IN /\ SubSeq(ordered, 1, np) = Restrict(preferred, HdrUnion)
          /\ \A i, j \in (np + 1)..Len(ordered) :
               i < j => StrLess(ordered[i], ordered[j])

\* C11 witness: the rows and extra headers were given in two different
\* orders, and the list holds two preferred keys and two other keys.
C11_Witness ==
  /\ pc = "hdr_done"
  /\ Len(hdr_rows) = 2 /\ hdr_rows[1] # hdr_rows[2]
  /\ ordered = <<kType, kStartDate, kB, ka>>

\* <base_dir>/<root> (k)<ext>, and <base_dir>/<root><ext> for k = 0
SuffixedPath(k) ==
  LET root == Splitext(file_name)[1]
      ext == Splitext(file_name)[2]
      name == IF k = 0 THEN file_name
              ELSE root \o <<" ", "(">> \o DigitsOf(k) \o <<")">> \o ext
  IN IF out_dir = <<>> THEN name ELSE out_dir \o <<"/">> \o name

\* C12: the path next_available_path returns does not exist; it is the
\* unsuffixed name if that is free, else <root> (k)<ext> for the smallest
\* k >= 1 that is free; the loop makes at most as many iterations as there
\* are files; the export's save never replaces an existing file.
C12_NextAvailablePathIsFree ==
  /\ pc = "nap_loop" => nap_n - 1 <= Cardinality(fs)
  /\ pc = "nap_returned" =>
       /\ candidate \notin fs
       /\ \E k \in 0..Cardinality(fs) :
            /\ candidate = SuffixedPath(k)
            /\ \A j \in 0..(k - 1) : SuffixedPath(j) \in fs
  /\ \A i \in 1..Len(written) : ~written[i].existed

\* C12 witness: the directory held t.x; two exports later it holds t (1).x
\* and t (2).x as well.
C12_Witness ==
  /\ pc = "nap_saved"
  /\ out_dir = <<"d">>
  /\ Len(written) = 2
  /\ written[1].path = <<"d", "/", "t", " ", "(", "1", ")", ".", "x">>
  /\ written[2].path = <<"d", "/", "t", " ", "(", "2", ")", ".", "x">>

\* the run has loaded a workbook and gone past detection
Detected == pc # "exported" /\ excel_path # <<>>

NoHeaderRow(book) ==
  /\ sTasks \in DOMAIN book
  /\ \A c \in 1..NCols(book[sTasks]) : HeaderOf(book[sTasks].value[1][c]) = <<>>

\* C13 (as claimed): a run over a workbook without a 'tasks' sheet, or whose
\* 'tasks' sheet has an empty row 1, ends with exit status 1, without any
\* update call and without saving.
C13_BadDocumentIsFatal ==
  (Detected /\ (sTasks \notin DOMAIN loaded \/ NoHeaderRow(loaded)))
    => (pc = "exit1" /\ calls = <<>> /\ saved = <<>>)

\* the cells of the live sheet whose fill the step changes
FillChanges ==
  { rc \in DataCells : wb'[sTasks].fill[rc[1]][rc[2]] # Live.fill[rc[1]][rc[2]] }

\* a step within one run: calls are made only in the loop, one at a time,
\* with the detected rows fixed; rows are detected only while no call has
\* been made; fills change for the current row only, as its outcome is
\* recorded
OrderedStep ==
  /\ (calls' # calls /\ pass' = pass) =>
       (pc = "loop" /\ task_rows' = task_rows /\ Len(calls') = Len(calls) + 1)
  /\ (task_rows' # task_rows /\ pass' = pass) => (calls = <<>> /\ calls' = <<>>)
  /\ (sTasks \in DOMAIN wb /\ wb' # wb) =>
       (/\ pc = "loop"
        /\ \A rc \in FillChanges : InSeq(rc, task_rows[idx].yellow_cells)
        /\ success' + Len(failures') = success + Len(failures) + 1
        /\ idx' = idx + 1)

\* C14: within a run, detection of all TaskRows is complete before the first
\* update call; the calls are in ascending sheet-row order, so at most one
\* per TaskRow; a row's cells are marked only as its outcome is recorded.
C14_DetectThenReconcileInOrder ==
  /\ [](\A i, j \in 1..Len(calls) : i < j => calls[i].row_index < calls[j].row_index)
  /\ [][OrderedStep]_vars

\* C14 witness: a run has made two update calls.
C14_Witness == pc = "done" /\ Len(calls) = 2

\* C15 (as claimed): in a later run over the saved result, every row that
\* failed in the previous run is detected as a TaskRow again, and by the end
\* of the run has been called for or recorded as failed again.
C15_FailedRowsRetried ==
  (pass > 1 /\ Detected) =>
    \A i \in 1..Len(prev_failures) :
      /\ IsTaskRow(prev_failures[i].row_index)
      /\ (pc = "done" =>
            (\/ CallsFor(prev_failures[i].row_index) # {}
             \/ FailuresFor(prev_failures[i].row_index) # {}))

\* C16: after the load, every sheet but the live one is as loaded, the live
\* sheet's values are as loaded, and a live cell whose fill differs from the
\* loaded one is in the changed-cell list of a TaskRow.
C16_ImportFrame ==
  (Detected /\ pc # "exit1") =>
    /\ DOMAIN wb = DOMAIN loaded
    /\ \A nm \in DOMAIN wb \ {sTasks} : wb[nm] = loaded[nm]
    /\ Live.value = loaded[sTasks].value
    /\ \A r \in 1..NRows(Live), c \in 1..NCols(Live) :
         Live.fill[r][c] # loaded[sTasks].fill[r][c] => InTaskRow(r, c)

\* C16 witness: the run has ended with a cell recoloured, while the marked
\* cell of a blank row and a shadow sheet are in the document.
C16_Witness ==
  /\ pc = "done" /\ has_orig
  /\ \E rc \in DataCells : Live.fill[rc[1]][rc[2]] # loaded[sTasks].fill[rc[1]][rc[2]]
  /\ \E rc \in DataCells :
       /\ Live.fill[rc[1]][rc[2]] = SolidRGB(rgbYellow8)
       /\ \A c \in 1..NCols(Live) : IsEmptyValue(Live.value[rc[1]][c])

====
